---- MODULE Spec2Model ----
(***************************************************************************)
(* gitbook2pdf (src/main.py): GitbookScraper.scrape crawls a GitBook site  *)
(* with a thread pool, PDFGenerator renders the pages, main() turns the    *)
(* outcome into the process exit code.                                     *)
(*                                                                         *)
(* The main thread runs get_page / extract_toc / the summary and flat      *)
(* fallbacks / the TOC filter sequentially, then submits one               *)
(* _download_page task per filtered entry to a ThreadPoolExecutor.  Each   *)
(* task is split at the points where another thread can run between two    *)
(* accesses to shared state: dequeue, the visited_urls test of get_page,   *)
(* the network request (with the visited_urls insertion and the content    *)
(* extraction), and the locked append to self.pages.                       *)
(***************************************************************************)
EXTENDS Integers, Sequences, FiniteSets, TLC

\* ---------------------------------------------------------------- bounds
MaxLinks == 2                 \* links of one fetched document

\* ------------------------------------------------------- program constants
DefaultWorkers == 3           \* max_workers=3 of __init__, default of -w
ExitSuccess == 0
ExitFailure == 1
ExitInterrupt == 130
NoExit == -1                  \* main() has not returned yet

\* ------------------------------------------------------------ input values
\* href attributes as they appear in the markup
Hrefs == {"a.html", "./a.html", "b.html", " ", "#top"}
\* visible link texts, as get_text(strip=True) returns them
Texts == {"A", "B"}
\* values of the -w/--workers option
WorkerOptions == {1, DefaultWorkers}

base_url == "http://h/book"
NoUrl == ""
NoSoup == [container |-> "unfetched", outer |-> 0, links |-> <<>>]

SeqUpTo(S, n) == UNION {[1..k -> S] : k \in 0..n}

\* an <a> element: its href, its stripped text, and the number of li/ul
\* ancestors strictly between it and the navigation container
Links == [href : Hrefs, text : Texts, inner : {2}]
\* a parsed document: the kind of navigation container soup.find locates,
\* the number of li/ul ancestors of that container, the <a> elements in
\* document order
Soups == [container : {"none", "nav"}, outer : {0}, links : SeqUpTo(Links, MaxLinks)]

\* ----------------------------------------------------------- pure helpers
\* str.strip() on the hrefs and texts of the model
Strip(s) == IF s = " " THEN "" ELSE s

\* str.startswith on the hrefs of the model
StartsWith(h, prefix) ==
    CASE prefix = "#"           -> h \in {"#top"}
      [] prefix = "http"        -> h \in {"http://ext/x"}
      [] prefix = "mailto:"     -> h \in {"mailto:x@y"}
      [] prefix = "javascript:" -> h \in {"javascript:;"}
      [] OTHER                  -> FALSE

StartsWithAny(h, prefixes) == \E p \in prefixes : StartsWith(h, p)

\* urljoin(self.base_url, href)
UrlJoin(href) ==
    CASE href \in {"a.html", "./a.html"} -> "http://h/a.html"
      [] href = "b.html"                 -> "http://h/b.html"
      [] href = "SUMMARY.md"             -> "http://h/SUMMARY.md"
      [] href = "summary.html"           -> "http://h/summary.html"
      [] href = "toc.html"               -> "http://h/toc.html"
      [] href \in {"", " "}              -> base_url
      [] OTHER                           -> href

\* the summary paths with the first two exchanged
summary_paths_exchanged == <<"summary.html", "SUMMARY.md", "toc.html">>

summary_paths == <<"SUMMARY.md", "summary.html", "toc.html">>

Urls == {UrlJoin(h) : h \in Hrefs} \cup {UrlJoin(summary_paths[k]) : k \in 1..3} \cup {base_url}

\* the level loop of extract_toc: parents are walked until one is named
\* 'nav'; under any other container the walk ends at the document root
Level(soup, a) ==
    IF soup.container = "nav" THEN a.inner
    ELSE a.inner + soup.outer + (IF soup.container = "ul.summary" THEN 1 ELSE 0)

\* extract_toc (the second definition, which is the one bound to the class)
RECURSIVE ExtractLoop(_, _, _, _)
ExtractLoop(soup, k, seen_hrefs, acc) ==
    IF k > Len(soup.links) THEN acc
    ELSE LET a == soup.links[k]
         IN IF a.href # "" /\ ~StartsWithAny(a.href, {"#", "http"})
               /\ a.text # "" /\ a.href \notin seen_hrefs
            THEN ExtractLoop(soup, k + 1, seen_hrefs \cup {a.href},
                     Append(acc, [title |-> a.text, href |-> a.href,
                                  level |-> Level(soup, a)]))
            ELSE ExtractLoop(soup, k + 1, seen_hrefs, acc)

\* extract_toc without its seen_hrefs test
RECURSIVE ExtractLoopRepeating(_, _, _)
ExtractLoopRepeating(soup, k, acc) ==
    IF k > Len(soup.links) THEN acc
    ELSE LET a == soup.links[k]
         IN IF a.href # "" /\ ~StartsWithAny(a.href, {"#", "http"}) /\ a.text # ""
            THEN ExtractLoopRepeating(soup, k + 1,
                     Append(acc, [title |-> a.text, href |-> a.href,
                                  level |-> Level(soup, a)]))
            ELSE ExtractLoopRepeating(soup, k + 1, acc)

extract_toc_repeating(soup) ==
    IF soup.container = "none" THEN <<>> ELSE ExtractLoopRepeating(soup, 1, <<>>)

extract_toc(soup) ==
    IF soup.container = "none" THEN <<>> ELSE ExtractLoop(soup, 1, {}, <<>>)

\* scrape, the fallback that builds the TOC from every link of the base page
RECURSIVE FlatLoop(_, _, _)
FlatLoop(soup, k, acc) ==
    IF k > Len(soup.links) THEN acc
    ELSE LET a == soup.links[k]
         IN IF a.href # ""
               /\ ~StartsWithAny(a.href, {"#", "http", "mailto:", "javascript:"})
               /\ a.text # ""
            THEN FlatLoop(soup, k + 1,
                     Append(acc, [title |-> a.text, href |-> a.href, level |-> 0]))
            ELSE FlatLoop(soup, k + 1, acc)

\* the flat fallback giving its entries the level extract_toc would compute
RECURSIVE FlatLoopLevelled(_, _, _)
FlatLoopLevelled(soup, k, acc) ==
    IF k > Len(soup.links) THEN acc
    ELSE LET a == soup.links[k]
         IN IF a.href # ""
               /\ ~StartsWithAny(a.href, {"#", "http", "mailto:", "javascript:"})
               /\ a.text # ""
            THEN FlatLoopLevelled(soup, k + 1,
                     Append(acc, [title |-> a.text, href |-> a.href,
                                  level |-> Level(soup, a)]))
            ELSE FlatLoopLevelled(soup, k + 1, acc)

flat_toc_levelled(soup) == FlatLoopLevelled(soup, 1, <<>>)

flat_toc(soup) == FlatLoop(soup, 1, <<>>)

\* scrape, the filter of duplicate TOC entries
RECURSIVE FilterLoop(_, _, _, _, _)
FilterLoop(t, k, seen_titles, seen_urls, acc) ==
    IF k > Len(t) THEN acc
    ELSE LET title == Strip(t[k].title)
             href == Strip(t[k].href)
         IN IF title = "" \/ href = "" THEN FilterLoop(t, k + 1, seen_titles, seen_urls, acc)
            ELSE IF title \in seen_titles \/ href \in seen_urls
                 THEN FilterLoop(t, k + 1, seen_titles, seen_urls, acc)
                 ELSE FilterLoop(t, k + 1, seen_titles \cup {title},
                                 seen_urls \cup {href}, Append(acc, t[k]))

\* the filter without its test for an empty title or href
RECURSIVE FilterLoopKeepingEmpty(_, _, _, _, _)
FilterLoopKeepingEmpty(t, k, seen_titles, seen_urls, acc) ==
    IF k > Len(t) THEN acc
    ELSE LET title == Strip(t[k].title)
             href == Strip(t[k].href)
         IN IF title \in seen_titles \/ href \in seen_urls
            THEN FilterLoopKeepingEmpty(t, k + 1, seen_titles, seen_urls, acc)
            ELSE FilterLoopKeepingEmpty(t, k + 1, seen_titles \cup {title},
                                        seen_urls \cup {href}, Append(acc, t[k]))

filter_toc_keeping_empty(t) == FilterLoopKeepingEmpty(t, 1, {}, {}, <<>>)

filter_toc(t) == FilterLoop(t, 1, {}, {}, <<>>)

\* scrape, url_to_index: the dict built over enumerate(filtered_toc), read
\* with url_to_index.get(url, float('inf'))
Infinity(filtered) == Len(filtered) + 1

url_to_index(filtered, url) ==
    LET hits == {i \in 1..Len(filtered) : UrlJoin(filtered[i].href) = url}
    IN IF hits = {} THEN Infinity(filtered)
       ELSE CHOOSE i \in hits : \A j \in hits : j <= i

\* list.sort(key=...): a stable sort, here by insertion from the left
RECURSIVE InsertByKey(_, _, _)
InsertByKey(sorted, p, filtered) ==
    IF sorted = <<>> THEN <<p>>
    ELSE IF url_to_index(filtered, sorted[Len(sorted)].url) <= url_to_index(filtered, p.url)
         THEN Append(sorted, p)
         ELSE Append(InsertByKey(SubSeq(sorted, 1, Len(sorted) - 1), p, filtered),
                     sorted[Len(sorted)])

RECURSIVE SortFrom(_, _, _, _)
SortFrom(ps, k, acc, filtered) ==
    IF k > Len(ps) THEN acc
    ELSE SortFrom(ps, k + 1, InsertByKey(acc, ps[k], filtered), filtered)

sort_pages(ps, filtered) == SortFrom(ps, 1, <<>>, filtered)

\* the content strings a Page can carry
Unavailable(url) == [kind |-> "unavailable", url |-> url]
Extracted(url) == [kind |-> "html", url |-> url]
ExtractionError == [kind |-> "error", url |-> NoUrl]

\* GitbookScraper(args.url, temp_dir, args.delay, proxy) in main(): the
\* max_workers parameter is left to its default
scraper_max_workers(workers_option) == DefaultWorkers

\* main(): the exit code once scrape() has returned and, when pages exist,
\* generate_pdf() has returned pdf_path
\* main() without its "if not pages" test
exit_after_scrape_unchecked(ps) == NoExit

exit_after_scrape(ps) == IF ps = <<>> THEN ExitFailure ELSE NoExit
\* main() returning 0 whatever generate_pdf returned
exit_after_render_unchecked(pdf_ok) == ExitSuccess

exit_after_render(pdf_ok) == IF pdf_ok THEN ExitSuccess ELSE ExitFailure

\* ------------------------------------------------------------------ state
VARIABLES
    args_workers,   \* args.workers
    max_workers,    \* self.max_workers
    pc,             \* position of the main thread
    soup,           \* scrape's local soup (the base page), NoSoup when not live
    summary_idx,    \* index of the summary path tried next
    toc_source,     \* which strategy produced self.toc
    toc,            \* self.toc
    discovered_toc, \* self.toc as the discovery strategies left it
    filtered_toc,   \* scrape's local filtered_toc
    task,           \* one _download_page call per submitted item
    visited_urls,   \* self.visited_urls
    pages,          \* self.pages
    requests,       \* number of session.get calls issued per URL
    failed_urls,    \* URLs for which session.get raised
    ret_pages,      \* the pair returned by scrape()
    ret_toc,
    rendered,       \* generate_pdf() has been called
    pdf_path,       \* main's pdf_path: "unset", "written" or "None"
    exit_code,      \* value returned by main()
    text1,          \* _similar_text's arguments
    text2,
    similar,        \* the value _similar_text returned
    generator_pages, \* PDFGenerator's self.pages
    generator_toc,  \* PDFGenerator's self.toc
    html,           \* what generate_html has written to gitbook.html
    page_item,      \* _download_page's argument item
    page_soup,      \* _download_page's page_soup, as its content region
    page_content,   \* _download_page's content
    img_task,       \* one download_image call per entry
    img_files       \* the files of self.img_dir

\* the state of PDFGenerator and of a _similar_text call
generator_vars == <<text1, text2, similar, generator_pages, generator_toc, html>>

\* no title comparison made, no PDFGenerator constructed
GeneratorIdle ==
    /\ text1 = <<>>
    /\ text2 = <<>>
    /\ similar = FALSE
    /\ generator_pages = <<>>
    /\ generator_toc = <<>>
    /\ html = <<>>

\* the state of one _download_page call and of the download_image calls
download_vars == <<page_item, page_soup, page_content, img_task, img_files>>

\* a TOC entry holding nothing
NoItem == [title |-> <<>>, href |-> "", level |-> 0]

\* no _download_page call under way, no download_image call made, img_dir
\* empty
DownloadIdle ==
    /\ page_item = NoItem
    /\ page_soup = <<>>
    /\ page_content = <<>>
    /\ img_task = <<>>
    /\ img_files = <<>>

vars == <<args_workers, max_workers, pc, soup, summary_idx, toc_source, toc,
          discovered_toc, filtered_toc, task, visited_urls, pages, requests,
          failed_urls, ret_pages, ret_toc, rendered, pdf_path, exit_code,
          generator_vars, download_vars>>

Init ==
    /\ args_workers \in WorkerOptions
    /\ max_workers = scraper_max_workers(args_workers)
    /\ pc = "get_base"
    /\ soup = NoSoup
    /\ summary_idx = 1
    /\ toc_source = "none"
    /\ toc = <<>>
    /\ discovered_toc = <<>>
    /\ filtered_toc = <<>>
    /\ task = <<>>
    /\ visited_urls = {}
    /\ pages = <<>>
    /\ requests = [u \in Urls |-> 0]
    /\ failed_urls = {}
    /\ ret_pages = <<>>
    /\ ret_toc = <<>>
    /\ rendered = FALSE
    /\ pdf_path = "unset"
    /\ exit_code = NoExit
    /\ GeneratorIdle
    /\ DownloadIdle

\* ---------------------------------------------------- main thread: scrape
\* get_page as the main thread runs it (no other thread exists yet): the
\* visited test, session.get, and on success the insertion in visited_urls
main_vars == <<generator_vars, download_vars, args_workers, max_workers, discovered_toc, task, pages, ret_pages,
               ret_toc, rendered, pdf_path, exit_code>>

\* scrape: soup = self.get_page(self.base_url); return [], [] when it fails
GetBasePage ==
    /\ pc = "get_base"
    /\ requests' = [requests EXCEPT ![base_url] = @ + 1]
    /\ \/ \E s \in Soups :
            /\ soup' = s
            /\ visited_urls' = visited_urls \cup {base_url}
            /\ pc' = "extract"
            /\ UNCHANGED <<failed_urls, toc_source>>
       \/ /\ failed_urls' = failed_urls \cup {base_url}
          /\ toc_source' = "base_failed"
          /\ pc' = "returned"
          /\ UNCHANGED <<soup, visited_urls>>
    /\ UNCHANGED <<summary_idx, toc, filtered_toc>>
    /\ UNCHANGED main_vars

\* scrape: self.toc = self.extract_toc(soup)
ExtractBaseToc ==
    /\ pc = "extract"
    /\ toc' = extract_toc(soup)
    /\ IF toc' # <<>>
       THEN /\ toc_source' = "nav"
            /\ soup' = NoSoup
            /\ pc' = "filter"
       ELSE /\ pc' = "summary"
            /\ UNCHANGED <<toc_source, soup>>
    /\ UNCHANGED <<summary_idx, filtered_toc, visited_urls, requests, failed_urls>>
    /\ UNCHANGED main_vars

\* the results extract_toc(summary_soup) can have, over the documents a
\* summary URL can answer with
SummaryTocs == {extract_toc(s) : s \in Soups}

\* scrape: one iteration of the loop over SUMMARY.md, summary.html, toc.html
TrySummaryPage ==
    /\ pc = "summary"
    /\ summary_idx <= Len(summary_paths)
    /\ LET summary_url == UrlJoin(summary_paths[summary_idx])
           next_pc == IF summary_idx = Len(summary_paths) THEN "flat" ELSE "summary"
       IN IF summary_url \in visited_urls
          THEN /\ pc' = next_pc
               /\ UNCHANGED <<requests, visited_urls, failed_urls, toc, toc_source, soup>>
          ELSE /\ requests' = [requests EXCEPT ![summary_url] = @ + 1]
               /\ \/ \E t \in SummaryTocs :
                       /\ visited_urls' = visited_urls \cup {summary_url}
                       /\ toc' = t
                       /\ IF toc' # <<>>
                          THEN /\ toc_source' = summary_paths[summary_idx]
                               /\ soup' = NoSoup
                               /\ pc' = "filter"
                          ELSE /\ pc' = next_pc
                               /\ UNCHANGED <<toc_source, soup>>
                       /\ UNCHANGED failed_urls
                  \/ /\ failed_urls' = failed_urls \cup {summary_url}
                     /\ pc' = next_pc
                     /\ UNCHANGED <<visited_urls, toc, toc_source, soup>>
    /\ summary_idx' = summary_idx + 1
    /\ UNCHANGED filtered_toc
    /\ UNCHANGED main_vars

\* scrape: the TOC built from the links of the base page; return [], []
\* when it is empty as well
FlatFallback ==
    /\ pc = "flat"
    /\ toc' = flat_toc(soup)
    /\ soup' = NoSoup
    /\ IF toc' # <<>>
       THEN /\ toc_source' = "flat"
            /\ pc' = "filter"
       ELSE /\ toc_source' = "exhausted"
            /\ pc' = "returned"
    /\ UNCHANGED <<summary_idx, filtered_toc, visited_urls, requests, failed_urls>>
    /\ UNCHANGED main_vars

\* scrape: filter the TOC and submit one _download_page per kept item
QueuedTask == [pc |-> "queued", outcome |-> "none", page_soup |-> "unset",
               content |-> Unavailable(NoUrl)]

FilterAndSubmit ==
    /\ pc = "filter"
    /\ filtered_toc' = filter_toc(toc)
    /\ task' = [i \in 1..Len(filtered_toc') |-> QueuedTask]
    /\ discovered_toc' = toc
    /\ pc' = "pool"
    /\ UNCHANGED <<generator_vars, download_vars>>
    /\ UNCHANGED <<args_workers, max_workers, soup, summary_idx, toc_source, toc,
                   visited_urls, pages, requests, failed_urls, ret_pages, ret_toc,
                   rendered, pdf_path, exit_code>>

\* ------------------------------------------ worker threads: _download_page
\* _download_page: page_url = urljoin(self.base_url, href), href stripped
page_url(item) == UrlJoin(Strip(item.href))

\* _download_page: the dict appended to self.pages
new_page(item, content) ==
    [title |-> Strip(item.title), url |-> page_url(item),
     content |-> content, level |-> item.level]

\* an append that leaves out the page of an entry that could not be fetched
append_page_unless_unavailable(ps, page) ==
    IF page.content.kind = "unavailable" THEN ps ELSE Append(ps, page)

\* _download_page: with self.pages_lock: self.pages.append(...)
append_page(ps, page) == Append(ps, page)

\* get_page: what happens to visited_urls around session.get
visited_after_fetch(visited, url, ok) == IF ok THEN visited \cup {url} ELSE visited

\* get_page: the value returned to _download_page: None when the URL is in
\* visited_urls (line 96), None when session.get raised (line 111), the
\* parsed document otherwise
get_page_result(outcome) ==
    CASE outcome = "visited" -> "None"
      [] outcome = "failed"  -> "None"
      [] outcome = "fetched" -> "soup"

\* _download_page: if not title or not href: return
skips_item(item) == Strip(item.title) = "" \/ Strip(item.href) = ""

\* tasks a worker thread of the pool is running
Running == {i \in DOMAIN task : task[i].pc \notin {"queued", "done"}}

worker_vars == <<generator_vars, download_vars, args_workers, max_workers, pc, soup, summary_idx, toc_source, toc,
                 discovered_toc, filtered_toc, ret_pages, ret_toc, rendered,
                 pdf_path, exit_code>>

\* ThreadPoolExecutor: an idle worker takes the oldest queued work item and
\* calls _download_page, which returns at once for an item without title
\* or href
TaskStart(i) ==
    /\ pc = "pool"
    /\ task[i].pc = "queued"
    /\ \A j \in 1..(i - 1) : task[j].pc # "queued"
    /\ Cardinality(Running) < max_workers
    /\ task' = [task EXCEPT ![i].pc = IF skips_item(filtered_toc[i])
                                      THEN "done" ELSE "get_page"]
    /\ UNCHANGED <<visited_urls, pages, requests, failed_urls>>
    /\ UNCHANGED worker_vars

\* get_page: if url in self.visited_urls: return None
TaskCheckVisited(i) ==
    /\ pc = "pool"
    /\ task[i].pc = "get_page"
    /\ LET url == page_url(filtered_toc[i])
       IN IF url \in visited_urls
          THEN task' = [task EXCEPT ![i] = [pc |-> "append", outcome |-> "visited",
                                            page_soup |-> get_page_result("visited"),
                                            content |-> Unavailable(url)]]
          ELSE task' = [task EXCEPT ![i].pc = "request"]
    /\ UNCHANGED <<visited_urls, pages, requests, failed_urls>>
    /\ UNCHANGED worker_vars

\* get_page: session.get and raise_for_status; on success the URL is added
\* to visited_urls and _download_page runs process_page_content, on a
\* RequestException get_page returns None
TaskRequest(i) ==
    /\ pc = "pool"
    /\ task[i].pc = "request"
    /\ LET url == page_url(filtered_toc[i])
       IN /\ requests' = [requests EXCEPT ![url] = @ + 1]
          /\ \E ok \in BOOLEAN :
               /\ visited_urls' = visited_after_fetch(visited_urls, url, ok)
               /\ IF ok
                  THEN /\ \E content \in {Extracted(url), ExtractionError} :
                            task' = [task EXCEPT ![i] = [pc |-> "append",
                                         outcome |-> "fetched",
                                         page_soup |-> get_page_result("fetched"),
                                         content |-> content]]
                       /\ UNCHANGED failed_urls
                  ELSE /\ task' = [task EXCEPT ![i] = [pc |-> "append",
                                       outcome |-> "failed",
                                       page_soup |-> get_page_result("failed"),
                                       content |-> Unavailable(url)]]
                       /\ failed_urls' = failed_urls \cup {url}
    /\ UNCHANGED pages
    /\ UNCHANGED worker_vars

\* _download_page: the append under pages_lock, then the task returns
TaskAppend(i) ==
    /\ pc = "pool"
    /\ task[i].pc = "append"
    /\ pages' = append_page(pages, new_page(filtered_toc[i], task[i].content))
    /\ task' = [task EXCEPT ![i].pc = "done"]
    /\ UNCHANGED <<visited_urls, requests, failed_urls>>
    /\ UNCHANGED worker_vars

\* ---------------------------------------------- main thread: after the pool
\* scrape: wait(futures) has returned; self.toc = filtered_toc, the pages are
\* sorted when there are any, and (self.pages, self.toc) is returned
returned_pages(ps, filtered) == IF ps = <<>> THEN ps ELSE sort_pages(ps, filtered)

\* a wait that returns once every work item has been taken by a worker
all_started(t) == \A i \in DOMAIN t : t[i].pc # "queued"

\* concurrent.futures.wait(futures), and the exit of the with block
all_done(t) == \A i \in DOMAIN t : t[i].pc = "done"

PoolDone ==
    /\ pc = "pool"
    /\ all_done(task)
    /\ toc' = filtered_toc
    /\ pages' = returned_pages(pages, filtered_toc)
    /\ ret_pages' = pages'
    /\ ret_toc' = toc'
    /\ pc' = "returned"
    /\ UNCHANGED <<generator_vars, download_vars>>
    /\ UNCHANGED <<args_workers, max_workers, soup, summary_idx, toc_source,
                   discovered_toc, filtered_toc, task, visited_urls, requests,
                   failed_urls, rendered, pdf_path, exit_code>>

\* main: if not pages: return 1
MainCheckPages ==
    /\ pc = "returned"
    /\ exit_code' = exit_after_scrape(ret_pages)
    /\ pc' = IF exit_code' = NoExit THEN "render" ELSE "exit"
    /\ UNCHANGED <<generator_vars, download_vars>>
    /\ UNCHANGED <<args_workers, max_workers, soup, summary_idx, toc_source, toc,
                   discovered_toc, filtered_toc, task, visited_urls, pages, requests,
                   failed_urls, ret_pages, ret_toc, rendered, pdf_path>>

\* main: pdf_path = pdf_generator.generate_pdf(output_path); return 0 / 1
RenderPdf ==
    /\ pc = "render"
    /\ rendered' = TRUE
    /\ \E pdf_ok \in BOOLEAN :
         /\ pdf_path' = IF pdf_ok THEN "written" ELSE "None"
         /\ exit_code' = exit_after_render(pdf_ok)
    /\ pc' = "exit"
    /\ UNCHANGED <<generator_vars, download_vars>>
    /\ UNCHANGED <<args_workers, max_workers, soup, summary_idx, toc_source, toc,
                   discovered_toc, filtered_toc, task, visited_urls, pages, requests,
                   failed_urls, ret_pages, ret_toc>>

Next ==
    \/ GetBasePage
    \/ ExtractBaseToc
    \/ TrySummaryPage
    \/ FlatFallback
    \/ FilterAndSubmit
    \/ \E i \in DOMAIN task : TaskStart(i)
    \/ \E i \in DOMAIN task : TaskCheckVisited(i)
    \/ \E i \in DOMAIN task : TaskRequest(i)
    \/ \E i \in DOMAIN task : TaskAppend(i)
    \/ PoolDone
    \/ MainCheckPages
    \/ RenderPdf

Spec == Init /\ [][Next]_vars

TypeOK ==
    /\ args_workers \in WorkerOptions
    /\ pc \in {"get_base", "extract", "summary", "flat", "filter", "pool",
               "returned", "render", "exit"}
    /\ visited_urls \subseteq Urls
    /\ failed_urls \subseteq Urls
    /\ Len(pages) <= Len(filtered_toc)
    /\ exit_code \in {NoExit, ExitSuccess, ExitFailure, ExitInterrupt}

\* ----------------------------------------------------------------- claims
Returned == pc \in {"returned", "render", "exit"}
Assembled == Returned /\ toc_source \in {"nav", "flat"} \cup {summary_paths[k] : k \in 1..3}

PagesTitled(ps, title) == {k \in 1..Len(ps) : ps[k].title = title}
PagesFor(ps, item) ==
    {k \in 1..Len(ps) : ps[k].title = Strip(item.title) /\ ps[k].url = page_url(item)}

\* C1: whatever the completion order of the tasks, the pages scrape returns
\* are in the order of the filtered TOC: the page of entry i comes before
\* the page of entry j whenever i < j.
C1_PagesInTocOrder ==
    Assembled =>
        \A i, j \in 1..Len(ret_toc) : i < j =>
            \A k \in PagesTitled(ret_pages, Strip(ret_toc[i].title)) :
                \A l \in PagesTitled(ret_pages, Strip(ret_toc[j].title)) : k < l

C3_FailurePlaceholderInPlace ==
    Assembled =>
        \A i \in DOMAIN task : task[i].outcome = "failed" =>
            /\ Len(ret_pages) = Len(ret_toc)
            /\ ret_pages[i].title = Strip(filtered_toc[i].title)
            /\ ret_pages[i].content = Unavailable(page_url(filtered_toc[i]))
            /\ (pc = "exit" /\ pdf_path = "written"
                  /\ (\E j \in DOMAIN task : task[j].outcome = "fetched"))
               => exit_code = ExitSuccess

\* C4: when two TOC entries resolve to the same absolute URL, in every
\* interleaving that URL is requested over the network at most once and
\* the final page list holds at most one Page with that URL.
C4_AliasFetchedOnce ==
    \A u \in Urls :
        /\ requests[u] <= 1
        /\ Assembled => Cardinality({k \in 1..Len(ret_pages) : ret_pages[k].url = u}) <= 1

\* C5: get_page puts the URL in visited_urls on the first fetch attempt,
\* failed or not, so a URL whose fetch failed is never requested again.
C5_FailedFetchIsVisited ==
    \A u \in Urls :
        /\ requests[u] > 0 => u \in visited_urls
        /\ u \in failed_urls => requests[u] <= 1

\* C6: when a TOC was found and the fetch of every entry failed, the run
\* fails: exit code 1, and the renderer is never invoked.
C6_AllFailedIsFatal ==
    (/\ Assembled
     /\ filtered_toc # <<>>
     /\ \A i \in DOMAIN task : task[i].outcome = "failed")
    => /\ ~rendered
       /\ pc # "render"
       /\ pc = "exit" => exit_code = ExitFailure

\* C7: never more page tasks in progress than the worker-pool width, which
\* is the value of the -w option when given and 3 otherwise.
C7_AtMostWorkersInProgress == Cardinality(Running) <= args_workers

\* C8: the filtered TOC has no two entries with the same title and no two
\* entries resolving to the same absolute URL; the first of each group of
\* duplicates is kept and the kept entries keep their relative order.
IsSubSeqAt(sub, full, at) ==
    /\ DOMAIN at = DOMAIN sub
    /\ \A i \in DOMAIN sub : at[i] \in DOMAIN full /\ full[at[i]] = sub[i]
    /\ \A i, j \in DOMAIN sub : i < j => at[i] < at[j]

C8_FilteredTocUnique ==
    pc = "pool" =>
        /\ \A i, j \in DOMAIN filtered_toc : i # j =>
              /\ Strip(filtered_toc[i].title) # Strip(filtered_toc[j].title)
              /\ page_url(filtered_toc[i]) # page_url(filtered_toc[j])
        /\ \E at \in [DOMAIN filtered_toc -> DOMAIN toc] :
              /\ IsSubSeqAt(filtered_toc, toc, at)
              /\ \A i \in DOMAIN at : \A k \in 1..(at[i] - 1) : toc[k] # toc[at[i]]

\* C9: an entry whose title or href is empty after trimming is left out
\* before the fetch phase and from the returned TOC: no task is submitted
\* for it, no Page is made for it, it is not in the TOC scrape returns.
IsEmptyEntry(item) == Strip(item.title) = "" \/ Strip(item.href) = ""
NonEmptyEntries(t) == {k \in DOMAIN t : ~IsEmptyEntry(t[k])}

C9_EmptyEntriesExcluded ==
    /\ Len(task) <= Cardinality(NonEmptyEntries(discovered_toc))
    /\ \A i \in DOMAIN task : ~IsEmptyEntry(filtered_toc[i])
    /\ \A k \in DOMAIN pages : pages[k].title # "" /\ pages[k].url # UrlJoin("")
    /\ Len(pages) <= Cardinality(NonEmptyEntries(discovered_toc))
    /\ Returned => \A k \in DOMAIN ret_toc : ~IsEmptyEntry(ret_toc[k])

C9_Witness ==
    /\ pc = "exit"
    /\ \E k \in DOMAIN discovered_toc : IsEmptyEntry(discovered_toc[k])
    /\ Len(ret_toc) = 1
    /\ Len(ret_pages) = 1

\* C10: when the fetch of the base URL fails, or no TOC strategy yields an
\* entry, the crawl fails: no worker task is launched, no Page is made,
\* scrape returns empty pages and TOC, and the process exits with 1.
PageUrls == {UrlJoin(h) : h \in Hrefs} \ {base_url}
CrawlFailed ==
    \/ base_url \in failed_urls
    \/ Returned /\ toc_source = "exhausted"

C10_FailedCrawl ==
    CrawlFailed =>
        /\ Returned
        /\ task = <<>> /\ pages = <<>>
        /\ \A u \in PageUrls : requests[u] = 0
        /\ ret_pages = <<>> /\ ret_toc = <<>>
        /\ ~rendered /\ pc # "render"
        /\ pc = "exit" => exit_code = ExitFailure

C10_Witness ==
    /\ pc = "exit"
    /\ toc_source = "exhausted"
    /\ \A k \in 1..3 : requests[UrlJoin(summary_paths[k])] = 1
    /\ exit_code = ExitFailure

\* ------------------------------------------------ interactive interruption
\* main: except KeyboardInterrupt: return 130.  The exception is raised in
\* the main thread, wherever it is inside the try block; no handler below
\* main catches it (scrape and generate_pdf catch Exception only).  While
\* the main thread is inside the "with ThreadPoolExecutor" block, leaving
\* the block runs shutdown(wait=True), so main returns only when every
\* submitted task is done; the workers do not see the interrupt.
exit_on_interrupt == ExitInterrupt

KeyboardInterrupt ==
    /\ pc # "exit"
    /\ pc = "pool" => all_done(task)
    /\ exit_code' = exit_on_interrupt
    /\ pc' = "exit"
    /\ UNCHANGED <<generator_vars, download_vars>>
    /\ UNCHANGED <<args_workers, max_workers, soup, summary_idx, toc_source, toc,
                   discovered_toc, filtered_toc, task, visited_urls, pages, requests,
                   failed_urls, ret_pages, ret_toc, rendered, pdf_path>>

NextInterruptible ==
    \/ Next
    \/ KeyboardInterrupt

SpecInterrupt == Init /\ [][NextInterruptible]_vars

\* C11: the process exits with 0 only when at least one page exists and the
\* renderer produced the output file, with 1 when no page exists or the
\* renderer fails or writes no output, with 130 on interactive interruption.
C11_ExitCodes ==
    pc = "exit" =>
        /\ exit_code \in {ExitSuccess, ExitFailure, ExitInterrupt}
        /\ exit_code = ExitSuccess => ret_pages # <<>> /\ rendered /\ pdf_path = "written"
        /\ exit_code = ExitFailure =>
              \/ ret_pages = <<>> /\ ~rendered
              \/ rendered /\ pdf_path = "None"
        /\ exit_code = ExitInterrupt => pdf_path = "unset"
        /\ (rendered /\ pdf_path = "None") => exit_code = ExitFailure
        /\ pdf_path = "written" => exit_code = ExitSuccess

C11_Witness ==
    /\ pc = "exit"
    /\ exit_code = ExitInterrupt
    /\ ret_pages # <<>>
    /\ ~rendered

\* ------------------------------------------------- extract_toc on its own
MaxTocLinks == 3              \* links of a document given to extract_toc

\* hrefs of every kind extract_toc and the flat fallback tell apart
TocHrefs == {"a.html", "b.html", "#top", "http://ext/x", "mailto:x@y", "javascript:;"}
\* link texts; "" is a link without visible text
TocTexts == {"", "A", "B"}
TocLinks == [href : TocHrefs, text : TocTexts, inner : {2}]
TocSoups == [container : {"none", "nav"}, outer : {0}, links : SeqUpTo(TocLinks, MaxTocLinks)]

\* the scraper right after construction, holding nothing
Idle ==
    /\ args_workers = DefaultWorkers
    /\ max_workers = scraper_max_workers(args_workers)
    /\ summary_idx = 1
    /\ toc_source = "none"
    /\ toc = <<>>
    /\ discovered_toc = <<>>
    /\ filtered_toc = <<>>
    /\ task = <<>>
    /\ visited_urls = {}
    /\ pages = <<>>
    /\ requests = [u \in Urls |-> 0]
    /\ failed_urls = {}
    /\ ret_pages = <<>>
    /\ ret_toc = <<>>
    /\ rendered = FALSE
    /\ pdf_path = "unset"
    /\ exit_code = NoExit

\* a parsed document is at hand
InitToc ==
    /\ Idle
    /\ GeneratorIdle
    /\ DownloadIdle
    /\ pc = "parsed"
    /\ soup \in TocSoups

\* self.toc = self.extract_toc(soup)
ExtractToc ==
    /\ pc = "parsed"
    /\ toc' = extract_toc(soup)
    /\ pc' = "extracted"
    /\ UNCHANGED <<generator_vars, download_vars>>
    /\ UNCHANGED <<args_workers, max_workers, soup, summary_idx, toc_source,
                   discovered_toc, filtered_toc, task, visited_urls, pages, requests,
                   failed_urls, ret_pages, ret_toc, rendered, pdf_path, exit_code>>

NextToc == ExtractToc

SpecToc == InitToc /\ [][NextToc]_vars

\* positions of the links of the document with a given href
Occurrences(links, href) == {k \in DOMAIN links : links[k].href = href}
TitledOccurrences(links, href) == {k \in Occurrences(links, href) : links[k].text # ""}
First(S) == CHOOSE k \in S : \A j \in S : k <= j

NoHrefTwice == \A i, j \in DOMAIN toc : i # j => toc[i].href # toc[j].href

\* C12 as stated: extract_toc returns at most one entry per raw href, and
\* the entries are in the order in which each href first occurs in the
\* container.
C12_FirstSeenOrder ==
    pc = "extracted" =>
        /\ NoHrefTwice
        /\ \A i, j \in DOMAIN toc : i < j =>
              First(Occurrences(soup.links, toc[i].href))
                 < First(Occurrences(soup.links, toc[j].href))

\* C12 as amended: extract_toc returns at most one entry per raw href, and
\* the entries are in the order in which each href first occurs on a link
\* with visible text (an earlier link without text does not count).
C12_FirstTitledOrder ==
    pc = "extracted" =>
        /\ NoHrefTwice
        /\ \A i \in DOMAIN toc : TitledOccurrences(soup.links, toc[i].href) # {}
        /\ \A i, j \in DOMAIN toc : i < j =>
              First(TitledOccurrences(soup.links, toc[i].href))
                 < First(TitledOccurrences(soup.links, toc[j].href))

C12_Witness ==
    /\ pc = "extracted"
    /\ Len(toc) = 2
    /\ \E h \in TocHrefs : Cardinality(TitledOccurrences(soup.links, h)) = 2

\* C13: the entries are exactly the first occurrences of the links of the
\* container with visible text whose href is none of fragment-only,
\* external http(s), javascript: and mailto:; nothing else is skipped.
SkippedKind(href) == StartsWithAny(href, {"#", "http", "javascript:", "mailto:"})
Qualifies(a) == a.href # "" /\ a.text # "" /\ ~SkippedKind(a.href)
FirstQualifying(links) ==
    {k \in DOMAIN links :
        /\ Qualifies(links[k])
        /\ \A j \in 1..(k - 1) : Qualifies(links[j]) => links[j].href # links[k].href}

C13_ExactlyQualifyingLinks ==
    (pc = "extracted" /\ soup.container # "none") =>
        /\ Len(toc) = Cardinality(FirstQualifying(soup.links))
        /\ \E at \in [DOMAIN toc -> DOMAIN soup.links] :
              /\ \A i \in DOMAIN toc :
                    /\ at[i] \in FirstQualifying(soup.links)
                    /\ toc[i].href = soup.links[at[i]].href
                    /\ toc[i].title = soup.links[at[i]].text
              /\ \A i, j \in DOMAIN toc : i < j => at[i] < at[j]

\* C14: when the base page has no navigation container and the summary
\* pages yield nothing, the TOC is built from the qualifying links of the
\* base page: every entry has level 0, the entries are in document order,
\* and the TOC is deduplicated by href and by title.
QualifyingLinks(links) == {k \in DOMAIN links : Qualifies(links[k])}

IsFlatTocOf(t, links) ==
    /\ Len(t) = Cardinality(QualifyingLinks(links))
    /\ \E at \in [DOMAIN t -> DOMAIN links] :
          /\ \A i \in DOMAIN t :
                /\ at[i] \in QualifyingLinks(links)
                /\ t[i] = [title |-> links[at[i]].text, href |-> links[at[i]].href,
                           level |-> 0]
          /\ \A i, j \in DOMAIN t : i < j => at[i] < at[j]

C14_FlatFallbackToc ==
    /\ pc = "flat" => IsFlatTocOf(flat_toc(soup), soup.links)
    /\ (toc_source = "flat" /\ pc = "pool") =>
          /\ toc = discovered_toc
          /\ \A i \in DOMAIN toc : toc[i].level = 0
          /\ \A i \in DOMAIN filtered_toc : filtered_toc[i].level = 0
          /\ \A i, j \in DOMAIN filtered_toc : i # j =>
                /\ Strip(filtered_toc[i].href) # Strip(filtered_toc[j].href)
                /\ Strip(filtered_toc[i].title) # Strip(filtered_toc[j].title)
          /\ \E at \in [DOMAIN filtered_toc -> DOMAIN toc] :
                IsSubSeqAt(filtered_toc, toc, at)
    /\ (toc_source = "flat" /\ Returned /\ exit_code # ExitInterrupt) =>
          /\ ret_toc = filtered_toc
          /\ \A i \in DOMAIN ret_toc : ret_toc[i].level = 0
          /\ \A k \in DOMAIN ret_pages : ret_pages[k].level = 0

C14_Witness ==
    /\ toc_source = "flat"
    /\ pc = "pool"
    /\ Len(toc) = 2
    /\ Len(filtered_toc) = 1
    /\ requests[UrlJoin(summary_paths[3])] = 1

\* C15: get_page called with a URL already in visited_urls makes no
\* network request and returns an "already visited" result that is not an
\* error: a result distinct from the one a failed fetch returns.
Requesters(u) ==
    {i \in DOMAIN task : page_url(filtered_toc[i]) = u
                         /\ task[i].outcome \in {"fetched", "failed"}}

C15_VisitedIsNotAnError ==
    /\ \A u \in PageUrls : requests[u] = Cardinality(Requesters(u))
    /\ \A i \in DOMAIN task : task[i].outcome = "visited" =>
          task[i].page_soup # get_page_result("failed")

\* C16: in the document scrape returns there are at most as many pages as
\* TOC entries, every page corresponds to exactly one entry (same title and
\* resolved URL), and the pages are in the relative order of their entries.
EntriesFor(entries, page) ==
    {i \in 1..Len(entries) : /\ Strip(entries[i].title) = page.title
                             /\ page_url(entries[i]) = page.url}

C16_PagesFollowEntries ==
    Returned =>
        /\ Len(ret_pages) <= Len(ret_toc)
        /\ \A k \in 1..Len(ret_pages) :
              Cardinality(EntriesFor(ret_toc, ret_pages[k])) = 1
        /\ \A k, l \in 1..Len(ret_pages) : k < l =>
              \A i \in EntriesFor(ret_toc, ret_pages[k]) :
                  \A j \in EntriesFor(ret_toc, ret_pages[l]) : i < j

\* C20: the membership test and the insertion on visited_urls are one
\* critical section: no two workers are at the same time between the test
\* and the insertion for the same URL.
BetweenTestAndInsert(i) == task[i].pc = "request"

C20_TestAndInsertAtomic ==
    \A i, j \in DOMAIN task :
        (i # j /\ page_url(filtered_toc[i]) = page_url(filtered_toc[j])) =>
            ~(BetweenTestAndInsert(i) /\ BetweenTestAndInsert(j))

\* ------------------------------------------------ title similarity
\* A title is a sequence of characters; a character outside ASCII is named
\* by its code point.
Di == "U+7B2C"
Zhang == "U+7AE0"
IdeographicSpace == "U+3000"

\* str.lower on the characters of the model
UpperCase == <<"A", "B", "C", "D", "E", "F", "G", "H", "I", "J", "K", "L", "M",
               "N", "O", "P", "Q", "R", "S", "T", "U", "V", "W", "X", "Y", "Z">>
LowerCase == <<"a", "b", "c", "d", "e", "f", "g", "h", "i", "j", "k", "l", "m",
               "n", "o", "p", "q", "r", "s", "t", "u", "v", "w", "x", "y", "z">>
Lower(c) ==
    IF \E k \in DOMAIN UpperCase : UpperCase[k] = c
    THEN LowerCase[CHOOSE k \in DOMAIN UpperCase : UpperCase[k] = c]
    ELSE c
LowerAll(text) == [k \in DOMAIN text |-> Lower(text[k])]

\* str.split without arguments splits at runs of white space
WhiteSpace == {" ", "\t", "\n", IdeographicSpace}
IsWhiteSpace(c) == c \in WhiteSpace
NotWhiteSpace(c) == ~IsWhiteSpace(c)

\* ''.join(text.split())
JoinSplit(text) == SelectSeq(text, NotWhiteSpace)

\* str.replace(old, new) for a non-empty old: the occurrences of old are
\* replaced from the left, without overlap
RECURSIVE Replace(_, _, _)
Replace(text, old, new) ==
    IF Len(text) < Len(old) THEN text
    ELSE IF SubSeq(text, 1, Len(old)) = old
         THEN new \o Replace(SubSeq(text, Len(old) + 1, Len(text)), old, new)
         ELSE <<Head(text)>> \o Replace(Tail(text), old, new)

\* str.strip on a sequence of characters
RECURSIVE LStrip(_)
LStrip(text) ==
    IF text # <<>> /\ IsWhiteSpace(Head(text)) THEN LStrip(Tail(text)) ELSE text
RECURSIVE RStrip(_)
RStrip(text) ==
    IF text # <<>> /\ IsWhiteSpace(text[Len(text)])
    THEN RStrip(SubSeq(text, 1, Len(text) - 1)) ELSE text
StripText(text) == RStrip(LStrip(text))

\* _similar_text: cn_nums, in the order of the dict
cn_nums ==
    << <<"U+96F6", <<"0">> >>, <<"U+4E00", <<"1">> >>, <<"U+4E8C", <<"2">> >>,
       <<"U+4E09", <<"3">> >>, <<"U+56DB", <<"4">> >>, <<"U+4E94", <<"5">> >>,
       <<"U+516D", <<"6">> >>, <<"U+4E03", <<"7">> >>, <<"U+516B", <<"8">> >>,
       <<"U+4E5D", <<"9">> >>, <<"U+5341", <<"1", "0">> >>,
       <<"U+767E", <<"1", "0", "0">> >>, <<"U+5343", <<"1", "0", "0", "0">> >>,
       <<"U+4E07", <<"1", "0", "0", "0", "0">> >> >>

\* normalize_text: prefixes, in the order of the list
prefixes ==
    << <<Di>>, <<Zhang>>, <<"c", "h", "a", "p", "t", "e", "r">>,
       <<"s", "e", "c", "t", "i", "o", "n">>, <<"p", "a", "r", "t">> >>

\* for cn, ar in cn_nums.items(): text = text.replace(cn, ar)
RECURSIVE ReplaceNumerals(_, _)
ReplaceNumerals(text, k) ==
    IF k > Len(cn_nums) THEN text
    ELSE ReplaceNumerals(Replace(text, <<cn_nums[k][1]>>, cn_nums[k][2]), k + 1)

\* for prefix in prefixes: text = text.replace(prefix, '')
RECURSIVE RemovePrefixes(_, _)
RemovePrefixes(text, k) ==
    IF k > Len(prefixes) THEN text
    ELSE RemovePrefixes(Replace(text, prefixes[k], <<>>), k + 1)

\* _similar_text: normalize_text
normalize_text(text) ==
    StripText(RemovePrefixes(ReplaceNumerals(JoinSplit(LowerAll(text)), 1), 1))

\* _similar_text without the test of the normalized texts for emptiness
similar_text_unguarded(t1, t2) ==
    IF t1 = <<>> \/ t2 = <<>> THEN FALSE
    ELSE normalize_text(t1) = normalize_text(t2)

\* _similar_text (the two classes hold the same definition)
similar_text(t1, t2) ==
    IF t1 = <<>> \/ t2 = <<>> THEN FALSE
    ELSE LET norm_text1 == normalize_text(t1)
             norm_text2 == normalize_text(t2)
         IN IF norm_text1 = <<>> \/ norm_text2 = <<>> THEN FALSE
            ELSE norm_text1 = norm_text2

\* the titles compared
Chapter1 == <<"C", "h", "a", "p", "t", "e", "r", " ", "1">>
Chapter3 == <<"C", "h", "a", "p", "t", "e", "r", " ", "3">>
Chapter4 == <<"C", "h", "a", "p", "t", "e", "r", " ", "4">>
Chapter10 == <<"C", "h", "a", "p", "t", "e", "r", " ", "1", "0">>
Section3 == <<"S", "E", "C", "T", "I", "O", "N", "\t", "3">>
Di1Zhang == <<Di, "U+4E00", Zhang>>
Di3Zhang == <<Di, "U+4E09", Zhang>>
Di10Zhang == <<Di, "U+5341", Zhang>>
Intro == <<"I", "n", "t", "r", "o">>
PartOnly == <<"P", "a", "r", "t">>
SplitPart == <<"p", "a", Zhang, "r", "t">>
Blank == <<" ", IdeographicSpace>>
SimilarTitles ==
    {Chapter1, Chapter3, Chapter4, Chapter10, Section3, Di1Zhang, Di3Zhang,
     Di10Zhang, Intro, PartOnly, SplitPart, Blank, <<Di>>, <<Zhang>>, <<>>}

\* two titles are at hand
InitSimilar ==
    /\ Idle
    /\ soup = NoSoup
    /\ pc = "titles"
    /\ text1 \in SimilarTitles
    /\ text2 \in SimilarTitles
    /\ similar = FALSE
    /\ generator_pages = <<>>
    /\ generator_toc = <<>>
    /\ html = <<>>
    /\ DownloadIdle

\* self._similar_text(text1, text2)
SimilarText ==
    /\ pc = "titles"
    /\ similar' = similar_text(text1, text2)
    /\ pc' = "compared"
    /\ UNCHANGED <<text1, text2, generator_pages, generator_toc, html>>
    /\ UNCHANGED download_vars
    /\ UNCHANGED <<args_workers, max_workers, soup, summary_idx, toc_source, toc,
                   discovered_toc, filtered_toc, task, visited_urls, pages, requests,
                   failed_urls, ret_pages, ret_toc, rendered, pdf_path, exit_code>>

NextSimilar == SimilarText
SpecSimilar == InitSimilar /\ [][NextSimilar]_vars

\* C19: the similarity of two titles is true exactly when both, after white
\* space removal, lower-casing, numeral substitution and removal of the
\* prefix tokens, are non-empty and equal; it is symmetric; it is true for
\* ("Chapter 3", Di-3-Zhang), false for ("Chapter 3", "Chapter 4"), and false
\* when either normalized title is empty.
Normalized(text) ==
    RemovePrefixes(ReplaceNumerals(LowerAll(JoinSplit(text)), 1), 1)

C19_TitleSimilarity ==
    pc = "compared" =>
        /\ similar = (/\ Normalized(text1) # <<>>
                      /\ Normalized(text2) # <<>>
                      /\ Normalized(text1) = Normalized(text2))
        /\ similar = similar_text(text2, text1)
        /\ (text1 = Chapter3 /\ text2 = Di3Zhang) => similar
        /\ (text1 = Chapter3 /\ text2 = Chapter4) => ~similar
        /\ (Normalized(text1) = <<>> \/ Normalized(text2) = <<>>) => ~similar

C19_Witness ==
    /\ pc = "compared"
    /\ text1 = Chapter3
    /\ text2 = Di3Zhang
    /\ similar

\* --------------------------------------------------- generate_html
MaxPages == 2

\* page['content'] as the sequence of its elements, headings with their text
Heading(tag, text) == [tag |-> tag, text |-> text]
Paragraph == [tag |-> "p", text |-> <<>>]
Contents ==
    {<<>>,
     <<Paragraph>>,
     <<Heading("h1", Chapter1), Paragraph>>,
     <<Heading("h1", Chapter1), Heading("h1", Di1Zhang)>>,
     <<Heading("h2", Chapter1), Heading("h1", Intro)>>,
     <<Heading("h1", Intro), Heading("h1", Chapter1)>>}

IntroMark == <<"I", "n", "t", "r", "o", "!">>
HtmlTitles == {Di1Zhang, Chapter3, Intro, IntroMark}
HtmlPages == [title : HtmlTitles, content : Contents]

\* the page lists main hands to PDFGenerator: not empty, and the titles
\* differ because scrape's filter keeps one entry per title
HtmlPageLists ==
    {ps \in SeqUpTo(HtmlPages, MaxPages) :
        /\ ps # <<>>
        /\ \A k, l \in DOMAIN ps : k # l => ps[k].title # ps[l].title}

\* the characters of the model that the pattern [^\w\s] leaves in place:
\* letters, digits, the underscore, CJK characters and white space
Digits == {"0", "1", "2", "3", "4", "5", "6", "7", "8", "9"}
CjkChars == {Di, Zhang} \cup {cn_nums[k][1] : k \in DOMAIN cn_nums}
IsWordOrSpace(c) ==
    \/ \E k \in DOMAIN UpperCase : c \in {UpperCase[k], LowerCase[k]}
    \/ c \in Digits \cup CjkChars \cup {"_"}
    \/ IsWhiteSpace(c)

\* _make_id: re.sub(r'[^\w\s]', '', text).replace(' ', '_').lower()
_make_id(text) ==
    LowerAll(Replace(SelectSeq(text, IsWordOrSpace), <<" ">>, <<"_">>))

\* generate_html: page['content'].find('<h1'), 0 when there is none
first_h1(content) ==
    IF \E k \in DOMAIN content : content[k].tag = "h1"
    THEN CHOOSE k \in DOMAIN content :
            /\ content[k].tag = "h1"
            /\ \A l \in 1..(k - 1) : content[l].tag # "h1"
    ELSE 0

\* generate_html: content_has_title
content_has_title(page) ==
    /\ page.content # <<>>
    /\ first_h1(page.content) > 0
    /\ similar_text(page.content[first_h1(page.content)].text, page.title)

\* generate_html: the div of one page, with the generated heading first
\* when the content has no title
chapter(page) ==
    [kind |-> "chapter",
     id |-> _make_id(page.title),
     title |-> page.title,
     elements |-> (IF content_has_title(page)
                   THEN <<>> ELSE <<Heading("h1", page.title)>>) \o page.content]

\* a separator after every page, the last one too
section_break_always(page, ps) == TRUE

\* generate_html: if page != self.pages[-1]
section_break(page, ps) == page # ps[Len(ps)]

RECURSIVE WritePages(_, _)
WritePages(ps, k) ==
    IF k > Len(ps) THEN <<>>
    ELSE <<chapter(ps[k])>>
         \o (IF section_break(ps[k], ps) THEN <<[kind |-> "hr"]>> ELSE <<>>)
         \o WritePages(ps, k + 1)

\* generate_html: the index, then the pages
generate_html(ps, entries) ==
    <<[kind |-> "index",
       items |-> [k \in DOMAIN entries |->
                     [target |-> _make_id(entries[k].title),
                      title |-> entries[k].title]]]>>
    \o WritePages(ps, 1)

\* PDFGenerator(pages, toc, temp_dir) has been constructed
InitHtml ==
    /\ Idle
    /\ soup = NoSoup
    /\ pc = "generator"
    /\ text1 = <<>>
    /\ text2 = <<>>
    /\ similar = FALSE
    /\ generator_pages \in HtmlPageLists
    /\ generator_toc = [k \in DOMAIN generator_pages |->
                           [title |-> generator_pages[k].title, level |-> 0]]
    /\ html = <<>>
    /\ DownloadIdle

\* html_path = self.generate_html()
GenerateHtml ==
    /\ pc = "generator"
    /\ html' = generate_html(generator_pages, generator_toc)
    /\ pc' = "html_written"
    /\ UNCHANGED <<text1, text2, similar, generator_pages, generator_toc>>
    /\ UNCHANGED download_vars
    /\ UNCHANGED <<args_workers, max_workers, soup, summary_idx, toc_source, toc,
                   discovered_toc, filtered_toc, task, visited_urls, pages, requests,
                   failed_urls, ret_pages, ret_toc, rendered, pdf_path, exit_code>>

NextHtml == GenerateHtml
SpecHtml == InitHtml /\ [][NextHtml]_vars

IsChapter(e) == e.kind = "chapter"
Chapters(doc) == SelectSeq(doc, IsChapter)
IsBreak(e) == e.kind = "hr"
Breaks(doc) == SelectSeq(doc, IsBreak)

\* the top-level headings of a sequence of elements that are the title or
\* similar to it
TitleHeadings(elements, title) ==
    {k \in DOMAIN elements :
        /\ elements[k].tag = "h1"
        /\ (elements[k].text = title \/ similar_text(elements[k].text, title))}

FirstHeadingIsTitle(page) ==
    \E k \in TitleHeadings(page.content, page.title) :
        \A l \in 1..(k - 1) : page.content[l].tag # "h1"

\* C17: for a page whose content's first top-level heading is, once
\* normalized, the title of the page, the section written for the page holds
\* exactly one top-level heading equivalent to the title: no generated
\* heading is written in addition to the one of the content.
C17_TitleWrittenOnce ==
    pc = "html_written" =>
        \A k \in DOMAIN generator_pages :
            FirstHeadingIsTitle(generator_pages[k]) =>
                /\ Chapters(html)[k].title = generator_pages[k].title
                /\ Cardinality(TitleHeadings(Chapters(html)[k].elements,
                                             generator_pages[k].title)) = 1

\* C18: generate_html writes a section break after every page but the last:
\* Len(pages) - 1 breaks, one between two consecutive pages, none at the end.
C18_BreaksBetweenPages ==
    pc = "html_written" =>
        /\ Len(Chapters(html)) = Len(generator_pages)
        /\ Len(Breaks(html)) = Len(generator_pages) - 1
        /\ ~IsBreak(html[Len(html)])
        /\ \A k \in 1..(Len(html) - 1) :
              /\ IsBreak(html[k]) => (IsChapter(html[k - 1]) /\ IsChapter(html[k + 1]))
              /\ IsChapter(html[k]) => IsBreak(html[k + 1])

C18_Witness ==
    /\ pc = "html_written"
    /\ Len(generator_pages) = MaxPages
    /\ Len(Breaks(html)) = MaxPages - 1

\* C22: TOC discovery tries its strategies in a fixed order and stops at the
\* first that yields entries: the navigation of the base page, then
\* SUMMARY.md, summary.html, toc.html in this order, none fetched once one has
\* yielded entries, then the flat links of the base page; the TOC in use is
\* the result of the first strategy that returned entries.
SummaryUrls == <<"http://h/SUMMARY.md", "http://h/summary.html", "http://h/toc.html">>
SummaryNames == <<"SUMMARY.md", "summary.html", "toc.html">>
Discovering == pc \in {"get_base", "extract", "summary", "flat"}

\* the summary pages 1..n have been requested once each, the others not
RequestedUpTo(n) ==
    \A k \in 1..3 : requests[SummaryUrls[k]] = (IF k <= n THEN 1 ELSE 0)

C22_DiscoveryStep ==
    /\ \A k \in 1..3 :
          requests'[SummaryUrls[k]] # requests[SummaryUrls[k]] =>
              /\ toc = <<>>
              /\ RequestedUpTo(k - 1)
    /\ (pc = "flat" /\ pc' # "flat") => (toc = <<>> /\ RequestedUpTo(3))
    /\ (Discovering /\ toc' # toc) => (toc = <<>> /\ pc' = "filter")
    /\ (Discovering /\ pc' = "filter") => (toc' # <<>> /\ toc_source' # "none")

C22_SourceOfToc ==
    pc \in {"filter", "pool"} =>
        /\ toc # <<>>
        /\ toc_source = "nav" => RequestedUpTo(0)
        /\ \A k \in 1..3 : toc_source = SummaryNames[k] => RequestedUpTo(k)
        /\ toc_source = "flat" => RequestedUpTo(3)

C22_DiscoveryOrder == [][C22_DiscoveryStep]_vars /\ []C22_SourceOfToc

C22_Witness ==
    /\ pc = "pool"
    /\ toc_source = "summary.html"
    /\ requests["http://h/SUMMARY.md"] = 1
    /\ requests["http://h/summary.html"] = 1
    /\ requests["http://h/toc.html"] = 0

\* C23: the phases of a crawl are strictly ordered: no task starts before
\* TOC discovery and deduplication have finished, the sort starts only after
\* every submitted task has completed, and no page is appended once the sort
\* has started.
TaskStarts ==
    \E i \in DOMAIN task :
        i \in DOMAIN task' /\ task[i].pc = "queued" /\ task'[i].pc # "queued"

C23_PhaseStep ==
    /\ TaskStarts => /\ pc = "pool"
                     /\ filtered_toc = filter_toc(discovered_toc)
                     /\ <<toc, discovered_toc, filtered_toc>>'
                            = <<toc, discovered_toc, filtered_toc>>
    /\ (pc = "pool" /\ pc' # "pool") => \A i \in DOMAIN task : task[i].pc = "done"
    /\ Len(pages') > Len(pages) => (pc = "pool" /\ pc' = "pool")
    /\ Returned => pages' = pages

C23_PhaseState ==
    /\ (Discovering \/ pc = "filter") =>
          (task = <<>> /\ pages = <<>> /\ filtered_toc = <<>>)
    /\ Returned => /\ \A i \in DOMAIN task : task[i].pc = "done"
                   /\ ret_pages = pages

C23_PhasesOrdered == [][C23_PhaseStep]_vars /\ []C23_PhaseState

C23_Witness ==
    /\ pc = "returned"
    /\ Len(task) = 2
    /\ Len(ret_pages) = 2

\* ------------------------------------------- extract_toc: the level
MaxDepth == 2

\* links at every depth below the container, in documents whose container
\* is a nav element, a div of class summary or a ul of class summary, itself
\* below up to MaxDepth li/ul elements
LevelLinks == [href : {"a.html", "b.html"}, text : {"A"}, inner : 0..MaxDepth]
LevelSoups ==
    [container : {"nav", "div.summary", "ul.summary"}, outer : 0..MaxDepth,
     links : SeqUpTo(LevelLinks, MaxTocLinks)]

InitLevel ==
    /\ Idle
    /\ GeneratorIdle
    /\ DownloadIdle
    /\ pc = "parsed"
    /\ soup \in LevelSoups

SpecLevel == InitLevel /\ [][NextToc]_vars

\* C24: the level of a TOC entry is the number of li/ul ancestors of its
\* link strictly between the link and the navigation container found,
\* whichever kind of container it is; ancestors at or above the container
\* are not counted.
C24_LevelBelowContainer ==
    pc = "extracted" =>
        \A k \in DOMAIN toc :
            toc[k].level =
                soup.links[First(TitledOccurrences(soup.links, toc[k].href))].inner

\* C25: in the document written every line of the index points to the id
\* of exactly one page section: every entry of the TOC has a section with
\* the id made from its title, and no two sections have the same id.
SectionsWithId(doc, id) == {j \in DOMAIN Chapters(doc) : Chapters(doc)[j].id = id}

C25_AnchorsResolveOnce ==
    pc = "html_written" =>
        /\ \A k \in DOMAIN html[1].items :
              Cardinality(SectionsWithId(html, html[1].items[k].target)) = 1
        /\ \A i, j \in DOMAIN Chapters(html) :
              i # j => Chapters(html)[i].id # Chapters(html)[j].id

\* ------------------------------------------- process_page_content
MaxElements == 2

\* the elements of the content region that process_page_content looks at:
\* headings and paragraphs, with the text and the class attribute of each
RegionElements ==
    [tag : {"h1", "h3", "p"}, text : {Chapter1, Intro}, class : {"", "page-header"}]
Regions == SeqUpTo(RegionElements, MaxElements)

\* the TOC entries handed to _download_page
PageItems == [title : {Di1Zhang, Intro}, href : {"a.html"}, level : {0}]

\* process_page_content: a class attribute holding one of summary,
\* book-summary, table-of-contents, header, heading
HasChromeClass(e) == e.class = "page-header"

IsHeading(e) == e.tag \in {"h1", "h2", "h3", "h4", "h5", "h6"}

\* process_page_content: the element is decomposed; a title of None or ''
\* (here <<>>) switches the comparison with the title off
Decomposed(e, title) ==
    /\ IsHeading(e) \/ e.tag \in {"nav", "div"}
    /\ \/ HasChromeClass(e)
       \/ /\ IsHeading(e)
          /\ title # <<>>
          /\ similar_text(StripText(e.text), title)

\* process_page_content on the content region: str(main_content)
process_page_content(region, url, title) ==
    SelectSeq(region, LAMBDA e : ~Decomposed(e, title))

\* _download_page: the third argument of process_page_content is None
known_title(entry) == <<>>

\* get_page has returned the document of the entry
InitContent ==
    /\ Idle
    /\ GeneratorIdle
    /\ soup = NoSoup
    /\ pc = "page_fetched"
    /\ page_item \in PageItems
    /\ page_soup \in Regions
    /\ page_content = <<>>
    /\ img_task = <<>>
    /\ img_files = <<>>

\* _download_page: process_page_content, then the append to self.pages
ProcessPage ==
    /\ pc = "page_fetched"
    /\ page_content' = process_page_content(page_soup, page_url(page_item),
                                            known_title(page_item))
    /\ pages' = Append(pages, [title |-> StripText(page_item.title),
                               url |-> page_url(page_item),
                               content |-> page_content',
                               level |-> page_item.level])
    /\ pc' = "page_stored"
    /\ UNCHANGED <<page_item, page_soup, img_task, img_files>>
    /\ UNCHANGED generator_vars
    /\ UNCHANGED <<args_workers, max_workers, soup, summary_idx, toc_source, toc,
                   discovered_toc, filtered_toc, task, visited_urls, requests,
                   failed_urls, ret_pages, ret_toc, rendered, pdf_path, exit_code>>

NextContent == ProcessPage
SpecContent == InitContent /\ [][NextContent]_vars

\* C21: the content stored in a Page holds no heading of the content region
\* whose text is similar to the title of the entry: the extraction is run
\* with the title of the entry and removes every such heading.
C21_NoTitleHeadingStored ==
    pc = "page_stored" =>
        \A k \in DOMAIN pages :
            \A n \in DOMAIN pages[k].content :
                IsHeading(pages[k].content[n]) =>
                    ~similar_text(pages[k].content[n].text, pages[k].title)

\* -------------------------------------------------- download_image
MaxImageCalls == 2

\* image URLs, two of them with the same last path segment
ImgUrls == {"http://h/a/x.png", "http://h/b/x.png", "http://h/y.png"}

\* download_image: os.path.join(self.img_dir, os.path.basename(urlparse(img_url).path))
local_path(img_url) ==
    CASE img_url \in {"http://h/a/x.png", "http://h/b/x.png"} -> "images/x.png"
      [] img_url = "http://h/y.png"                            -> "images/y.png"

ImgPaths == {local_path(u) : u \in ImgUrls}

\* a file of img_dir: absent, partial (created, not all bytes of one
\* response in it) or complete; the URL whose response was written last;
\* the calls that hold it open; whether it was opened while no other call
\* held it open
NoFile == [state |-> "absent", source |-> NoUrl, writers |-> {}, alone |-> TRUE]

\* the calls are made by the workers of the pool, one per call
InitImage ==
    /\ Idle
    /\ GeneratorIdle
    /\ soup = NoSoup
    /\ pc = "images"
    /\ page_item = NoItem
    /\ page_soup = <<>>
    /\ page_content = <<>>
    /\ img_task \in [1..MaxImageCalls ->
                        [url : ImgUrls, pc : {"exists"}, result : {"unset"}]]
    /\ img_files = [p \in ImgPaths |-> NoFile]

image_vars == <<generator_vars, args_workers, max_workers, pc, soup, summary_idx,
                toc_source, toc, discovered_toc, filtered_toc, task, visited_urls,
                pages, requests, failed_urls, ret_pages, ret_toc, rendered,
                pdf_path, exit_code, page_item, page_soup, page_content>>

\* download_image: if os.path.exists(local_path): return local_path
ImageExists(w) ==
    /\ img_task[w].pc = "exists"
    /\ LET path == local_path(img_task[w].url)
       IN img_task' = [img_task EXCEPT ![w] =
              IF img_files[path].state # "absent"
              THEN [@ EXCEPT !.pc = "done", !.result = path]
              ELSE [@ EXCEPT !.pc = "get"]]
    /\ UNCHANGED img_files
    /\ UNCHANGED image_vars

\* download_image: session.get and raise_for_status; None on a
\* RequestException
ImageGet(w) ==
    /\ img_task[w].pc = "get"
    /\ \E ok \in BOOLEAN :
         img_task' = [img_task EXCEPT ![w] =
              IF ok THEN [@ EXCEPT !.pc = "open"]
              ELSE [@ EXCEPT !.pc = "done", !.result = "None"]]
    /\ UNCHANGED img_files
    /\ UNCHANGED image_vars

\* download_image: open(local_path, 'wb') creates or truncates the file
ImageOpen(w) ==
    /\ img_task[w].pc = "open"
    /\ LET path == local_path(img_task[w].url)
       IN img_files' = [img_files EXCEPT ![path] =
              [state |-> "partial", source |-> img_task[w].url,
               writers |-> @.writers \cup {w}, alone |-> (@.writers = {})]]
    /\ img_task' = [img_task EXCEPT ![w].pc = "write"]
    /\ UNCHANGED image_vars

\* download_image: the chunks are written and the file is closed, or the
\* stream raises a RequestException and None is returned. A file that
\* several calls wrote at once holds all bytes of the last response or not.
ImageWrite(w) ==
    /\ img_task[w].pc = "write"
    /\ LET path == local_path(img_task[w].url)
           file == img_files[path]
       IN \E ok \in BOOLEAN :
            IF ok
            THEN /\ \E state \in (IF file.alone THEN {"complete"}
                                  ELSE {"complete", "partial"}) :
                      img_files' = [img_files EXCEPT ![path] =
                          [@ EXCEPT !.state = state, !.writers = @ \ {w}]]
                 /\ img_task' = [img_task EXCEPT ![w] =
                                    [@ EXCEPT !.pc = "done", !.result = path]]
            ELSE /\ img_files' = [img_files EXCEPT ![path].writers = @ \ {w}]
                 /\ img_task' = [img_task EXCEPT ![w] =
                                    [@ EXCEPT !.pc = "done", !.result = "None"]]
    /\ UNCHANGED image_vars

NextImage ==
    \/ \E w \in DOMAIN img_task : ImageExists(w)
    \/ \E w \in DOMAIN img_task : ImageGet(w)
    \/ \E w \in DOMAIN img_task : ImageOpen(w)
    \/ \E w \in DOMAIN img_task : ImageWrite(w)

SpecImage == InitImage /\ [][NextImage]_vars

\* C26: whenever download_image returns a local path for an image URL, the
\* file at that path holds the complete content fetched from that URL: two
\* different URLs never share a local file, and no path is returned for a
\* file another call is still writing or failed to finish.
ReturnsPath(w) ==
    /\ img_task[w].pc # "done"
    /\ img_task'[w].pc = "done"
    /\ img_task'[w].result # "None"

C26_ReturnStep ==
    \A w \in DOMAIN img_task :
        ReturnsPath(w) =>
            /\ img_files'[img_task'[w].result].state = "complete"
            /\ img_files'[img_task'[w].result].source = img_task[w].url
            /\ img_files'[img_task'[w].result].writers = {}

C26_OneFilePerUrl ==
    \A v, w \in DOMAIN img_task :
        (/\ img_task[v].pc = "done"
         /\ img_task[w].pc = "done"
         /\ img_task[v].result # "None"
         /\ img_task[v].result = img_task[w].result) =>
            img_task[v].url = img_task[w].url

C26_ReturnedFileComplete == [][C26_ReturnStep]_vars /\ []C26_OneFilePerUrl

====
